---- MODULE Spec2Model ----
(***************************************************************************)
(* Model of the azureProvider lifecycle calls of garm-provider-azure        *)
(* (src/provider/provider.go).  CreateInstance is a sequence of blocking    *)
(* cloud-client calls; every call is one action, together with the local    *)
(* code that runs between that call's return and the next call.  The cloud  *)
(* client is a collaborator: each of its calls returns nondeterministically  *)
(* an error or a response.                                                   *)
(***************************************************************************)
EXTENDS Integers, Sequences, FiniteSets, TLC

VARIABLES
    pc,         \* position of each caller inside CreateInstance
    spec,       \* the runner spec built at provider.go:61
    err,        \* the function-scope variable err (declared at provider.go:61)
    cacheSize,  \* provider.go:71
    subnetID,   \* subnet.ID, provider.go:110
    nsgID,      \* nsg.ID, provider.go:128
    nicID,      \* nic.ID, provider.go:133
    pubIP,      \* provider.go:116
    pubIPID,    \* provider.go:115
    ops,        \* the cloud-client calls issued by the running call, in order
    ret,        \* the values of the return statement that was executed
    osArch,     \* bootstrapParams.OSArch of the running CreateInstance call
    reply,      \* what the last call of another method returned
    cloud,      \* the provider's resource groups and the resources in them
    created     \* the names for which a CreateInstance call returned an instance

vars == <<pc, spec, err, cacheSize, subnetID, nsgID, nicID, pubIP, pubIPID, ops, ret,
          osArch, reply, cloud, created>>

----------------------------------------------------------------------------
(* Bounds of the model *)

MaxDiskSizeGB == 3
MaxEphemeral == 3
MaxListLen == 3

----------------------------------------------------------------------------
(* Values *)

Callers == {"c1"}

Names == {"runner-a", "runner-b"}

Amd64 == "amd64"

Archs == {"amd64", "arm64"}

VMSize == "Standard_D2s"

\* the nil error and the nil pointer
Nil == "nil"

\* the condition the client reports for what does not exist
NotFound == "not found"

\* errors the cloud client can return
ClientErrors == {"api error", "context canceled", NotFound}

SomeID == "resource-id"

SomeAddress == "20.0.0.4"

ImgDetails == [SKU |-> "22_04-lts", Version |-> "latest"]

\* the specs GetRunnerSpecFromBootstrapParams can hand to CreateInstance
RunnerSpecs ==
    [Name : Names, OSArch : {Amd64}, OSType : {"linux"},
     DiskSizeGB : 0..MaxDiskSizeGB, UseEphemeralStorage : BOOLEAN,
     Confidential : BOOLEAN, AllocatePublicIP : BOOLEAN]

NoSpec ==
    [Name |-> "", OSArch |-> "", OSType |-> "", DiskSizeGB |-> 0,
     UseEphemeralStorage |-> FALSE, Confidential |-> FALSE,
     AllocatePublicIP |-> FALSE]

\* fmt.Errorf("<label>: %w", cause) and fmt.Errorf("<label> ...", details)
Errorf(label, cause, detail) == [label |-> label, cause |-> cause, detail |-> detail]

NoError == Errorf("", Nil, <<>>)

\* params.ProviderInstance{}
EmptyInstance ==
    [ProviderID |-> "", Name |-> "", OSType |-> "", OSArch |-> "",
     OSName |-> "", OSVersion |-> "", Status |-> "", Addresses |-> <<>>]

NoRet == [kind |-> "none", err |-> NoError, instance |-> EmptyInstance]

ReturnError(e) == [kind |-> "error", err |-> e, instance |-> EmptyInstance]

ReturnInstance(i) == [kind |-> "ok", err |-> NoError, instance |-> i]

Panic == [kind |-> "panic", err |-> NoError, instance |-> EmptyInstance]

\* one cloud-client call: its name, its name argument (resource group, VM
\* size for the maximum query, pool for the list), the error it returned, and
\* where they apply the size (argument of the VM, result of the maximum
\* query), the identifiers passed in, and the identifier, address and list of
\* the response
\* a slice: nil, or its items
NilSlice == [isNil |-> TRUE, items |-> <<>>]

Slice(items) == [isNil |-> FALSE, items |-> items]

Call(op, arg, e) ==
    [op |-> op, arg |-> arg, err |-> e, size |-> 0, refs |-> <<>>,
     id |-> Nil, addr |-> Nil, list |-> NilSlice]

\* what DeleteInstance, ListInstances or RemoveAllInstances returned: the
\* method, its argument, the error and the slice
Reply(method, target, e, list) ==
    [method |-> method, target |-> target, err |-> e, list |-> list]

NoReply == Reply("", "", NoError, NilSlice)

----------------------------------------------------------------------------
(* The cloud behind the client: under every name the set of what exists,    *)
(* the resource group itself ("rg") and the resources in it                  *)

NoGroup == {}

Exists(cl, name) == "rg" \in cl[name]

KindOf(op) ==
    CASE op = "CreateVirtualNetwork"       -> "vnet"
      [] op = "CreateSubnet"               -> "subnet"
      [] op = "CreatePublicIP"             -> "pubip"
      [] op = "CreateNetworkSecurityGroup" -> "nsg"
      [] op = "CreateNetWorkInterface"     -> "nic"
      [] op = "CreateVirtualMachine"       -> "vm"

\* the calls that address an existing resource group
InGroupOps ==
    {"CreateVirtualNetwork", "CreateSubnet", "CreatePublicIP",
     "CreateNetworkSecurityGroup", "CreateNetWorkInterface",
     "CreateVirtualMachine", "DeleteResourceGroup"}

\* what the client can return in the cloud cl: a call on a resource group
\* succeeds only when the group exists, and the not-found condition is
\* reported only for a call on a group that does not exist
CanReturn(cl, call) ==
    /\ (call.err = Nil /\ call.op \in InGroupOps) => Exists(cl, call.arg)
    /\ call.err = NotFound =>
            (call.op \in InGroupOps /\ ~Exists(cl, call.arg))

\* the effect of a call that returned: creating a resource group keeps what an
\* existing group of that name holds, deleting it removes all it holds
CloudAfter(cl, call) ==
    IF call.err # Nil \/ call.op = "GetMaxEphemeralDiskSize"
        \/ call.op = "ListVirtualMachines"
    THEN cl
    ELSE IF call.op = "CreateResourceGroup"
    THEN [cl EXCEPT ![call.arg] = @ \cup {"rg"}]
    ELSE IF call.op = "DeleteResourceGroup"
    THEN [cl EXCEPT ![call.arg] = NoGroup]
    ELSE [cl EXCEPT ![call.arg] = @ \cup {KindOf(call.op)}]

----------------------------------------------------------------------------
(* The pure parts of CreateInstance *)

\* variant: every instance is put in one shared resource group
ResourceGroupName_Shared(s) == "runner-a"

\* spec.BootstrapParams.Name, the resource group of every call
ResourceGroupName(s) == s.Name

\* variant: the architecture is not checked
SupportedArch_Any(arch) == TRUE

SupportedArch(arch) == arch = Amd64

\* variant: the maximum is queried and enforced for every spec
NeedsMaxSize_Always(useEphemeralStorage) == TRUE

NeedsMaxSize(useEphemeralStorage) == useEphemeralStorage

\* variant: the gigabyte reserved for confidential VMs is not subtracted
AdjustedMaxSize_NoReserve(maxSize, confidential) == maxSize

AdjustedMaxSize(maxSize, confidential) ==
    IF confidential THEN maxSize - 1 ELSE maxSize

ResolveCacheSize(diskSizeGB, maxSize) ==
    IF diskSizeGB = 0 THEN maxSize ELSE diskSizeGB

\* variant: the request is never compared with the maximum
ExceedsMaxSize_Never(maxSize, diskSizeGB) == FALSE

\* variant: a request equal to the maximum is rejected
ExceedsMaxSize_OffByOne(maxSize, diskSizeGB) == maxSize <= diskSizeGB

ExceedsMaxSize(maxSize, diskSizeGB) == maxSize < diskSizeGB

StepLabel(op) ==
    CASE op = "GetMaxEphemeralDiskSize"    -> "failed to get max ephemeral disk size"
      [] op = "CreateResourceGroup"        -> "failed to create resource group"
      [] op = "CreateVirtualNetwork"       -> "failed to create virtual network"
      [] op = "CreateSubnet"               -> "failed to create subnet"
      [] op = "CreatePublicIP"             -> "failed to create public IP"
      [] op = "CreateNetworkSecurityGroup" -> "failed to create network security group"
      [] op = "CreateNetWorkInterface"     -> "failed to create NIC"
      [] op = "CreateVirtualMachine"       -> "failed to create VM"

\* variant: the NIC error is declared in an inner scope as well
AssignsOuterErr_NICShadowed(op) ==
    op \in {"CreateResourceGroup", "CreateVirtualNetwork", "CreateSubnet",
            "CreateNetworkSecurityGroup"}

\* TRUE when the error of the call is stored in the function-scope err that
\* the deferred cleanup reads; FALSE when `:=` declares a new err in an inner
\* block (the if block of the public IP, the if statement of the VM)
AssignsOuterErr(op) ==
    op \in {"CreateResourceGroup", "CreateVirtualNetwork", "CreateSubnet",
            "CreateNetworkSecurityGroup", "CreateNetWorkInterface"}

\* variant: the public IP is created whatever the spec asks
AfterSubnet_Always(allocatePublicIP) == "CreatePublicIP"

AfterSubnet(allocatePublicIP) ==
    IF allocatePublicIP THEN "CreatePublicIP" ELSE "CreateNetworkSecurityGroup"

\* variant: the defer statement precedes the creation of the resource group
CleanupRegistered_Early(op) == TRUE

\* TRUE when the defer statement of line 99 was executed before the call op
\* returns: the calls of lines 73 and 94 precede it
CleanupRegistered(op) ==
    op \notin {"GetMaxEphemeralDiskSize", "CreateResourceGroup"}

\* variant: the cleanup runs on every exit
ShouldCleanup_Always(e) == TRUE

\* the condition of the deferred cleanup
ShouldCleanup(e) == e # Nil

\* variant: a failed cleanup replaces the result (named results)
AfterCleanup_ReplaceError(pending, deleteErr) ==
    IF deleteErr # Nil
    THEN ReturnError(Errorf("failed to delete resource group", deleteErr, <<>>))
    ELSE pending

\* the deferred cleanup discards the error of DeleteResourceGroup, and the
\* results of CreateInstance are unnamed: the caller gets what the return
\* statement evaluated
AfterCleanup(pending, deleteErr) == pending

NewInstance(s, img, status) ==
    [ProviderID |-> s.Name, Name |-> s.Name, OSType |-> s.OSType,
     OSArch |-> s.OSArch, OSName |-> img.SKU, OSVersion |-> img.Version,
     Status |-> status, Addresses |-> <<>>]

\* variant: an address is appended whether or not one was captured
WithAddresses_Always(instance, ip) ==
    [instance EXCEPT !.Addresses = Append(@, [Address |-> ip, Type |-> "public"])]

WithAddresses(instance, ip) ==
    IF ip # ""
    THEN [instance EXCEPT !.Addresses = Append(@, [Address |-> ip, Type |-> "public"])]
    ELSE instance

----------------------------------------------------------------------------
(* State *)

Init ==
    /\ pc = [c \in Callers |-> "idle"]
    /\ spec = [c \in Callers |-> NoSpec]
    /\ err = [c \in Callers |-> Nil]
    /\ cacheSize = [c \in Callers |-> 0]
    /\ subnetID = [c \in Callers |-> Nil]
    /\ nsgID = [c \in Callers |-> Nil]
    /\ nicID = [c \in Callers |-> Nil]
    /\ pubIP = [c \in Callers |-> ""]
    /\ pubIPID = [c \in Callers |-> ""]
    /\ ops = [c \in Callers |-> <<>>]
    /\ ret = [c \in Callers |-> NoRet]
    /\ osArch = [c \in Callers |-> ""]
    /\ reply = [c \in Callers |-> NoReply]
    /\ cloud = [n \in Names |-> NoGroup]
    /\ created = {}

\* return before the deferred cleanup is registered
ReturnNow(c, e) ==
    /\ pc' = [pc EXCEPT ![c] = "returned"]
    /\ ret' = [ret EXCEPT ![c] = ReturnError(e)]

\* return (or panic) after the deferred cleanup is registered: the result is
\* evaluated, then the deferred function runs
ReturnDeferred(c, r) ==
    /\ pc' = [pc EXCEPT ![c] = "deferred"]
    /\ ret' = [ret EXCEPT ![c] = r]

\* return of the error e after the call op returned: the deferred function
\* runs when the defer statement was executed
ReturnAfter(c, op, e) ==
    IF CleanupRegistered(op)
    THEN ReturnDeferred(c, ReturnError(e))
    ELSE ReturnNow(c, e)

Goto(c, label) ==
    /\ pc' = [pc EXCEPT ![c] = label]
    /\ UNCHANGED ret

\* a call on a.azCli that returned
Issue(c, call) ==
    /\ CanReturn(cloud, call)
    /\ ops' = [ops EXCEPT ![c] = Append(@, call)]
    /\ cloud' = CloudAfter(cloud, call)

SetErr(c, op, e) ==
    err' = [err EXCEPT ![c] = IF AssignsOuterErr(op) THEN e ELSE @]

\* a create call after the cleanup is registered returned the error e
Fail(c, op, e) ==
    /\ SetErr(c, op, e)
    /\ ReturnDeferred(c, ReturnError(Errorf(StepLabel(op), e, <<>>)))

Results == ClientErrors \cup {Nil}

IDs == {Nil, SomeID}

----------------------------------------------------------------------------
(* CreateInstance *)

\* provider.go:55-71: the caller invokes CreateInstance, for a request whose
\* spec is one of specs; architecture check, spec building and image details
\* are local
CreateInstanceOf(c, specs) ==
    /\ pc[c] \in {"idle", "returned"}
    /\ subnetID' = [subnetID EXCEPT ![c] = Nil]
    /\ nsgID' = [nsgID EXCEPT ![c] = Nil]
    /\ nicID' = [nicID EXCEPT ![c] = Nil]
    /\ pubIP' = [pubIP EXCEPT ![c] = ""]
    /\ pubIPID' = [pubIPID EXCEPT ![c] = ""]
    /\ ops' = [ops EXCEPT ![c] = <<>>]
    /\ reply' = [reply EXCEPT ![c] = NoReply]
    /\ UNCHANGED <<cloud, created>>
    /\ \E arch \in Archs, s \in specs, specErr \in {Nil, "invalid spec"},
          imgErr \in {Nil, "invalid image"} :
        /\ osArch' = [osArch EXCEPT ![c] = arch]
        /\ IF ~SupportedArch(arch)
           THEN /\ spec' = [spec EXCEPT ![c] = NoSpec]
                /\ err' = [err EXCEPT ![c] = Nil]
                /\ cacheSize' = [cacheSize EXCEPT ![c] = 0]
                /\ ReturnNow(c, Errorf("invalid architecture", Nil, <<arch, Amd64>>))
           ELSE IF specErr # Nil
           THEN /\ spec' = [spec EXCEPT ![c] = NoSpec]
                /\ err' = [err EXCEPT ![c] = specErr]
                /\ cacheSize' = [cacheSize EXCEPT ![c] = 0]
                /\ ReturnNow(c, Errorf("failed to generate spec", specErr, <<>>))
           ELSE IF imgErr # Nil
           THEN /\ spec' = [spec EXCEPT ![c] = s]
                /\ err' = [err EXCEPT ![c] = imgErr]
                /\ cacheSize' = [cacheSize EXCEPT ![c] = 0]
                /\ ReturnNow(c, Errorf("failed to get image details", imgErr, <<>>))
           ELSE /\ spec' = [spec EXCEPT ![c] = s]
                /\ err' = [err EXCEPT ![c] = Nil]
                /\ cacheSize' = [cacheSize EXCEPT ![c] = s.DiskSizeGB]
                /\ pc' = [pc EXCEPT ![c] = IF NeedsMaxSize(s.UseEphemeralStorage)
                                            THEN "GetMaxEphemeralDiskSize"
                                            ELSE "CreateResourceGroup"]
                /\ ret' = [ret EXCEPT ![c] = NoRet]

\* the call of a provider process started for one CreateInstance command
CreateInstance(c) ==
    /\ pc[c] = "idle"
    /\ CreateInstanceOf(c, RunnerSpecs)

\* provider.go:73-91: the maximum query and the resolution of the disk size;
\* its err is declared in the if block
GetMaxEphemeralDiskSize(c) ==
    /\ pc[c] = "GetMaxEphemeralDiskSize"
    /\ UNCHANGED <<osArch, reply, created, spec, err, subnetID, nsgID, nicID, pubIP, pubIPID>>
    /\ \E e \in Results, m \in 0..MaxEphemeral :
        IF e # Nil
        THEN /\ Issue(c, Call("GetMaxEphemeralDiskSize", VMSize, e))
             /\ UNCHANGED cacheSize
             /\ ReturnAfter(c, "GetMaxEphemeralDiskSize",
                            Errorf(StepLabel("GetMaxEphemeralDiskSize"), e, <<>>))
        ELSE LET maxSize == AdjustedMaxSize(m, spec[c].Confidential)
             IN /\ Issue(c, [Call("GetMaxEphemeralDiskSize", VMSize, Nil)
                                EXCEPT !.size = m])
                /\ cacheSize' = [cacheSize EXCEPT
                                    ![c] = ResolveCacheSize(@, maxSize)]
                /\ IF ExceedsMaxSize(maxSize, spec[c].DiskSizeGB)
                   THEN ReturnAfter(c, "GetMaxEphemeralDiskSize",
                            Errorf("maximul ephemeral disk size", Nil,
                                   <<VMSize, maxSize, spec[c].DiskSizeGB>>))
                   ELSE Goto(c, "CreateResourceGroup")

\* provider.go:94-103: the resource group; on success the cleanup is deferred
CreateResourceGroup(c) ==
    /\ pc[c] = "CreateResourceGroup"
    /\ UNCHANGED <<osArch, reply, created, spec, cacheSize, subnetID, nsgID, nicID, pubIP, pubIPID>>
    /\ \E e \in Results :
        /\ Issue(c, Call("CreateResourceGroup", ResourceGroupName(spec[c]), e))
        /\ SetErr(c, "CreateResourceGroup", e)
        /\ IF e # Nil
           THEN ReturnAfter(c, "CreateResourceGroup",
                            Errorf(StepLabel("CreateResourceGroup"), e, <<>>))
           ELSE Goto(c, "CreateVirtualNetwork")

\* provider.go:105-108
CreateVirtualNetwork(c) ==
    /\ pc[c] = "CreateVirtualNetwork"
    /\ UNCHANGED <<osArch, reply, created, spec, cacheSize, subnetID, nsgID, nicID, pubIP, pubIPID>>
    /\ \E e \in Results :
        /\ Issue(c, Call("CreateVirtualNetwork", ResourceGroupName(spec[c]), e))
        /\ IF e # Nil
           THEN Fail(c, "CreateVirtualNetwork", e)
           ELSE /\ SetErr(c, "CreateVirtualNetwork", Nil)
                /\ Goto(c, "CreateSubnet")

\* provider.go:110-117
CreateSubnet(c) ==
    /\ pc[c] = "CreateSubnet"
    /\ UNCHANGED <<osArch, reply, created, spec, cacheSize, nsgID, nicID, pubIP, pubIPID>>
    /\ \E e \in Results, id \in IDs :
        IF e # Nil
        THEN /\ Issue(c, Call("CreateSubnet", ResourceGroupName(spec[c]), e))
             /\ UNCHANGED subnetID
             /\ Fail(c, "CreateSubnet", e)
        ELSE /\ Issue(c, [Call("CreateSubnet", ResourceGroupName(spec[c]), Nil) EXCEPT !.id = id])
             /\ subnetID' = [subnetID EXCEPT ![c] = id]
             /\ SetErr(c, "CreateSubnet", Nil)
             /\ Goto(c, AfterSubnet(spec[c].AllocatePublicIP))

\* provider.go:118-126: the public IP; its err is declared in the if block,
\* and publicIP.ID is dereferenced unchecked
CreatePublicIP(c) ==
    /\ pc[c] = "CreatePublicIP"
    /\ UNCHANGED <<osArch, reply, created, spec, cacheSize, subnetID, nsgID, nicID>>
    /\ \E e \in Results, id \in IDs, addr \in {Nil, SomeAddress} :
        IF e # Nil
        THEN /\ Issue(c, Call("CreatePublicIP", ResourceGroupName(spec[c]), e))
             /\ UNCHANGED <<pubIP, pubIPID>>
             /\ Fail(c, "CreatePublicIP", e)
        ELSE /\ Issue(c, [Call("CreatePublicIP", ResourceGroupName(spec[c]), Nil)
                             EXCEPT !.id = id, !.addr = addr])
             /\ SetErr(c, "CreatePublicIP", Nil)
             /\ pubIP' = [pubIP EXCEPT ![c] = IF addr # Nil THEN addr ELSE @]
             /\ IF id = Nil
                THEN /\ UNCHANGED pubIPID
                     /\ ReturnDeferred(c, Panic)
                ELSE /\ pubIPID' = [pubIPID EXCEPT ![c] = id]
                     /\ Goto(c, "CreateNetworkSecurityGroup")

\* provider.go:128-133: the security group, then the dereferences of
\* subnet.ID and nsg.ID in the arguments of the NIC call
CreateNetworkSecurityGroup(c) ==
    /\ pc[c] = "CreateNetworkSecurityGroup"
    /\ UNCHANGED <<osArch, reply, created, spec, cacheSize, subnetID, nicID, pubIP, pubIPID>>
    /\ \E e \in Results, id \in IDs :
        IF e # Nil
        THEN /\ Issue(c, Call("CreateNetworkSecurityGroup", ResourceGroupName(spec[c]), e))
             /\ UNCHANGED nsgID
             /\ Fail(c, "CreateNetworkSecurityGroup", e)
        ELSE /\ Issue(c, [Call("CreateNetworkSecurityGroup", ResourceGroupName(spec[c]), Nil)
                             EXCEPT !.id = id])
             /\ nsgID' = [nsgID EXCEPT ![c] = id]
             /\ SetErr(c, "CreateNetworkSecurityGroup", Nil)
             /\ IF subnetID[c] = Nil \/ id = Nil
                THEN ReturnDeferred(c, Panic)
                ELSE Goto(c, "CreateNetWorkInterface")

\* provider.go:133-138: the NIC, then the dereference of nic.ID in the
\* arguments of the VM call
CreateNetWorkInterface(c) ==
    /\ pc[c] = "CreateNetWorkInterface"
    /\ UNCHANGED <<osArch, reply, created, spec, cacheSize, subnetID, nsgID, pubIP, pubIPID>>
    /\ \E e \in Results, id \in IDs :
        LET refs == <<subnetID[c], nsgID[c], pubIPID[c]>>
        IN IF e # Nil
           THEN /\ Issue(c, [Call("CreateNetWorkInterface", ResourceGroupName(spec[c]), e)
                                EXCEPT !.refs = refs])
                /\ UNCHANGED nicID
                /\ Fail(c, "CreateNetWorkInterface", e)
           ELSE /\ Issue(c, [Call("CreateNetWorkInterface", ResourceGroupName(spec[c]), Nil)
                                EXCEPT !.refs = refs, !.id = id])
                /\ nicID' = [nicID EXCEPT ![c] = id]
                /\ SetErr(c, "CreateNetWorkInterface", Nil)
                /\ IF id = Nil
                   THEN ReturnDeferred(c, Panic)
                   ELSE Goto(c, "CreateVirtualMachine")

\* provider.go:138-161: the VM, whose err is declared in the if statement,
\* and the result record
CreateVirtualMachine(c) ==
    /\ pc[c] = "CreateVirtualMachine"
    /\ UNCHANGED <<osArch, reply, created, spec, cacheSize, subnetID, nsgID, nicID, pubIP, pubIPID>>
    /\ \E e \in Results :
        /\ Issue(c, [Call("CreateVirtualMachine", ResourceGroupName(spec[c]), e)
                        EXCEPT !.size = cacheSize[c], !.refs = <<nicID[c]>>])
        /\ IF e # Nil
           THEN Fail(c, "CreateVirtualMachine", e)
           ELSE /\ SetErr(c, "CreateVirtualMachine", Nil)
                /\ ReturnDeferred(c, ReturnInstance(
                       WithAddresses(NewInstance(spec[c], ImgDetails, "running"),
                                     pubIP[c])))

\* provider.go:99-103: the deferred cleanup, run when CreateInstance returns
\* or panics after the resource group was created
Cleanup(c) ==
    /\ pc[c] = "deferred"
    /\ UNCHANGED <<osArch, reply, spec, err, cacheSize, subnetID, nsgID, nicID, pubIP, pubIPID>>
    /\ pc' = [pc EXCEPT ![c] = IF ret[c].kind = "panic" THEN "panicked"
                                                         ELSE "returned"]
    /\ created' = IF ret[c].kind = "ok"
                  THEN created \cup {ret[c].instance.Name}
                  ELSE created
    /\ IF ShouldCleanup(err[c])
       THEN \E e \in Results :
                /\ Issue(c, Call("DeleteResourceGroup", ResourceGroupName(spec[c]), e))
                /\ ret' = [ret EXCEPT ![c] = AfterCleanup(@, e)]
       ELSE /\ UNCHANGED <<ops, cloud>>
            /\ ret' = [ret EXCEPT ![c] = AfterCleanup(@, Nil)]

----------------------------------------------------------------------------
(* DeleteInstance, ListInstances, RemoveAllInstances *)

\* the locals of a finished CreateInstance call are gone
Forget(c) ==
    /\ pc' = [pc EXCEPT ![c] = "idle"]
    /\ spec' = [spec EXCEPT ![c] = NoSpec]
    /\ err' = [err EXCEPT ![c] = Nil]
    /\ cacheSize' = [cacheSize EXCEPT ![c] = 0]
    /\ subnetID' = [subnetID EXCEPT ![c] = Nil]
    /\ nsgID' = [nsgID EXCEPT ![c] = Nil]
    /\ nicID' = [nicID EXCEPT ![c] = Nil]
    /\ pubIP' = [pubIP EXCEPT ![c] = ""]
    /\ pubIPID' = [pubIPID EXCEPT ![c] = ""]
    /\ ret' = [ret EXCEPT ![c] = NoRet]
    /\ osArch' = [osArch EXCEPT ![c] = ""]

\* variant: the resource group of a fixed instance is deleted
DeleteTarget_Fixed(instance) == "runner-a"

\* provider.go:166: the resource group DeleteInstance deletes
DeleteTarget(instance) == instance

\* provider.go:167-170: every error of the client is wrapped and returned
DeleteInstanceError(e) ==
    IF e # Nil THEN Errorf("failed to delete instance", e, <<>>) ELSE NoError

\* provider.go:165-171
DeleteInstance(c) ==
    /\ pc[c] \in {"idle", "returned"}
    /\ Forget(c)
    /\ UNCHANGED created
    /\ \E instance \in Names, e \in Results :
        LET call == Call("DeleteResourceGroup", DeleteTarget(instance), e)
        IN /\ CanReturn(cloud, call)
           /\ ops' = [ops EXCEPT ![c] = <<call>>]
           /\ cloud' = CloudAfter(cloud, call)
           /\ reply' = [reply EXCEPT ![c] =
                  Reply("DeleteInstance", instance, DeleteInstanceError(e), NilSlice)]

\* the element of a list response: a VM record or a nil pointer
NilVM == [Name |-> "", Malformed |-> FALSE, IsNil |-> TRUE]

ProviderVMs == [Name : Names, Malformed : BOOLEAN, IsNil : {FALSE}] \cup {NilVM}

RECURSIVE ListsOf(_, _)
ListsOf(elements, n) ==
    IF n = 0 THEN {<<>>}
    ELSE LET shorter == ListsOf(elements, n - 1)
         IN shorter \cup {Append(l, x) : l \in {k \in shorter : Len(k) = n - 1},
                                          x \in elements}

\* the lists ListVirtualMachines can return
ProviderLists ==
    {NilSlice} \cup {Slice(l) : l \in ListsOf(ProviderVMs, MaxListLen)}

\* util.AzureInstanceToParamsInstance: the record as an Instance, or an error
AzureInstanceToParamsInstance(vm) ==
    IF vm.Malformed
    THEN [err |-> "malformed vm", instance |-> EmptyInstance]
    ELSE [err |-> Nil,
          instance |-> [EmptyInstance EXCEPT !.ProviderID = vm.Name,
                                              !.Name = vm.Name,
                                              !.Status = "running"]]

\* variant: the records translated so far are returned with the error
OnNilVM_Partial(resp) ==
    [err |-> Errorf("nil vm object in response", Nil, <<>>), list |-> Slice(resp)]

\* provider.go:199-201
OnNilVM(resp) ==
    [err |-> Errorf("nil vm object in response", Nil, <<>>), list |-> NilSlice]

\* provider.go:198-208: the loop over the records, from index idx
RECURSIVE Translate(_, _, _)
Translate(instances, idx, resp) ==
    IF idx > Len(instances)
    THEN [err |-> NoError, list |-> Slice(resp)]
    ELSE IF instances[idx].IsNil
    THEN OnNilVM(resp)
    ELSE LET details == AzureInstanceToParamsInstance(instances[idx])
         IN IF details.err # Nil
            THEN [err |-> Errorf("failed to convert VM details", details.err, <<>>),
                  list |-> NilSlice]
            ELSE Translate(instances, idx + 1,
                           [resp EXCEPT ![idx] = details.instance])

\* provider.go:188-208: what ListInstances returns for what the client returned
ListInstancesResult(e, instances) ==
    IF e # Nil
    THEN [err |-> Errorf("failed to list instances", e, <<>>), list |-> NilSlice]
    ELSE IF instances.isNil
    THEN [err |-> NoError, list |-> Slice(<<>>)]
    ELSE Translate(instances.items, 1,
                   [i \in 1..Len(instances.items) |-> EmptyInstance])

PoolID == "pool-1"

\* provider.go:187-209
ListInstances(c) ==
    /\ pc[c] \in {"idle", "returned"}
    /\ Forget(c)
    /\ UNCHANGED <<cloud, created>>
    /\ \E response \in
            {[err |-> e, list |-> NilSlice] : e \in ClientErrors}
            \cup {[err |-> Nil, list |-> l] : l \in ProviderLists} :
        LET result == ListInstancesResult(response.err, response.list)
        IN /\ CanReturn(cloud, Call("ListVirtualMachines", PoolID, response.err))
           /\ ops' = [ops EXCEPT ![c] =
                  <<[Call("ListVirtualMachines", PoolID, response.err) EXCEPT
                        !.list = response.list]>>]
           /\ reply' = [reply EXCEPT ![c] =
                  Reply("ListInstances", PoolID, result.err, result.list)]

\* variant: every instance this provider created is deleted
RemoveAllDeletes_Created(names) == names

\* provider.go:212-214: the instances RemoveAllInstances deletes, of names
RemoveAllDeletes(names) == {}

\* provider.go:211-214
RemoveAllInstances(c) ==
    /\ pc[c] \in {"idle", "returned"}
    /\ Forget(c)
    /\ UNCHANGED created
    /\ ops' = [ops EXCEPT ![c] = <<>>]
    /\ cloud' = [n \in Names |-> IF n \in RemoveAllDeletes(created)
                                  THEN NoGroup ELSE cloud[n]]
    /\ reply' = [reply EXCEPT ![c] =
           Reply("RemoveAllInstances", "", NoError, NilSlice)]

----------------------------------------------------------------------------
(* Specifications *)

Next ==
    \E c \in Callers :
        \/ CreateInstance(c)
        \/ GetMaxEphemeralDiskSize(c)
        \/ CreateResourceGroup(c)
        \/ CreateVirtualNetwork(c)
        \/ CreateSubnet(c)
        \/ CreatePublicIP(c)
        \/ CreateNetworkSecurityGroup(c)
        \/ CreateNetWorkInterface(c)
        \/ CreateVirtualMachine(c)
        \/ Cleanup(c)

\* one CreateInstance call, for every spec
Spec == Init /\ [][Next]_vars

\* the specs of the calls that follow one another and run side by side
PlainSpecs ==
    {s \in RunnerSpecs :
        ~s.UseEphemeralStorage /\ ~s.Confidential /\ s.DiskSizeGB = 0}

CreateAgain(c) == CreateInstanceOf(c, PlainSpecs)

NextLifecycle ==
    \E c \in Callers :
        \/ CreateAgain(c)
        \/ CreateResourceGroup(c)
        \/ CreateVirtualNetwork(c)
        \/ CreateSubnet(c)
        \/ CreatePublicIP(c)
        \/ CreateNetworkSecurityGroup(c)
        \/ CreateNetWorkInterface(c)
        \/ CreateVirtualMachine(c)
        \/ Cleanup(c)
        \/ DeleteInstance(c)
        \/ RemoveAllInstances(c)

\* the calls of one caller after another, on a cloud that keeps what they
\* leave behind
Lifecycle == Init /\ [][NextLifecycle]_vars

NextListing == \E c \in Callers : ListInstances(c)

\* ListInstances on every list the client can return
Listing == Init /\ [][NextListing]_vars

\* two provider processes, each started for one CreateInstance command, with
\* different instance names
OwnName == [c \in {"c1", "c2"} |-> IF c = "c1" THEN "runner-a" ELSE "runner-b"]

ConcurrentCallers == DOMAIN OwnName

InitConcurrent ==
    /\ pc = [c \in ConcurrentCallers |-> "idle"]
    /\ spec = [c \in ConcurrentCallers |-> NoSpec]
    /\ err = [c \in ConcurrentCallers |-> Nil]
    /\ cacheSize = [c \in ConcurrentCallers |-> 0]
    /\ subnetID = [c \in ConcurrentCallers |-> Nil]
    /\ nsgID = [c \in ConcurrentCallers |-> Nil]
    /\ nicID = [c \in ConcurrentCallers |-> Nil]
    /\ pubIP = [c \in ConcurrentCallers |-> ""]
    /\ pubIPID = [c \in ConcurrentCallers |-> ""]
    /\ ops = [c \in ConcurrentCallers |-> <<>>]
    /\ ret = [c \in ConcurrentCallers |-> NoRet]
    /\ osArch = [c \in ConcurrentCallers |-> ""]
    /\ reply = [c \in ConcurrentCallers |-> NoReply]
    /\ cloud = [n \in Names |-> NoGroup]
    /\ created = {}

CreateOwn(c) ==
    /\ pc[c] = "idle"
    /\ CreateInstanceOf(c, {s \in PlainSpecs : s.Name = OwnName[c]})

NextConcurrent ==
    \E c \in ConcurrentCallers :
        \/ CreateOwn(c)
        \/ CreateResourceGroup(c)
        \/ CreateVirtualNetwork(c)
        \/ CreateSubnet(c)
        \/ CreatePublicIP(c)
        \/ CreateNetworkSecurityGroup(c)
        \/ CreateNetWorkInterface(c)
        \/ CreateVirtualMachine(c)
        \/ Cleanup(c)

Concurrent == InitConcurrent /\ [][NextConcurrent]_vars

----------------------------------------------------------------------------
(* Vocabulary of the properties: what a recording cloud client observed *)

CreateOps ==
    {"CreateResourceGroup", "CreateVirtualNetwork", "CreateSubnet",
     "CreatePublicIP", "CreateNetworkSecurityGroup", "CreateNetWorkInterface",
     "CreateVirtualMachine"}

\* steps 6-11 of the pipeline
LaterSteps == CreateOps \ {"CreateResourceGroup"}

CallsOf(c, op) == {i \in DOMAIN ops[c] : ops[c][i].op = op}

Issued(c, op) == CallsOf(c, op) # {}

Succeeded(c, op) == \E i \in CallsOf(c, op) : ops[c][i].err = Nil

Failed(c, op) == \E i \in CallsOf(c, op) : ops[c][i].err # Nil

Deletions(c) ==
    {i \in CallsOf(c, "DeleteResourceGroup") : ops[c][i].arg = spec[c].Name}

Returned(c) == pc[c] = "returned"

TypeOK ==
    \A c \in Callers :
        /\ pc[c] \in {"idle", "deferred", "returned", "panicked",
                      "GetMaxEphemeralDiskSize"} \cup CreateOps
        /\ spec[c] \in RunnerSpecs \cup {NoSpec}
        /\ err[c] \in Results \cup {"invalid spec", "invalid image"}
        /\ cacheSize[c] \in -1..(MaxDiskSizeGB + MaxEphemeral)
        /\ ret[c].kind \in {"none", "error", "ok", "panic"}
        /\ Len(ops[c]) <= 9

----------------------------------------------------------------------------
(* C1 *)

\* C1: when the resource group was created and one of the later steps
\* (virtual network, subnet, public IP, security group, NIC, VM) returned an
\* error, the call has issued exactly one deletion of its resource group by
\* the time it returns.
C1_RollbackExactlyOnce ==
    \A c \in Callers :
        (/\ Returned(c)
         /\ Succeeded(c, "CreateResourceGroup")
         /\ \E op \in LaterSteps : Failed(c, op))
        => Cardinality(Deletions(c)) = 1

----------------------------------------------------------------------------
(* C2 *)

\* C2: when one of the steps 6-11 returned an error, the caller gets that
\* error wrapped with the label of the step, labels of distinct steps differ,
\* and this holds whether the cleanup deletion succeeded or failed.
C2_ReturnedErrorIsStepError ==
    /\ \A a, b \in LaterSteps : a # b => StepLabel(a) # StepLabel(b)
    /\ \A c \in Callers : \A op \in LaterSteps : \A i \in CallsOf(c, op) :
          (Returned(c) /\ ops[c][i].err # Nil)
          => /\ ret[c].kind = "error"
             /\ ret[c].err.label = StepLabel(op)
             /\ ret[c].err.cause = ops[c][i].err

\* a call that failed at a later step and whose cleanup deletion failed with
\* another error than the step
C2_Witness ==
    \E c \in Callers : \E op \in LaterSteps : \E i \in CallsOf(c, op) :
        /\ Returned(c)
        /\ ops[c][i].err = "api error"
        /\ \E d \in Deletions(c) : ops[c][d].err = "context canceled"
        /\ ret[c].err.cause = "api error"

----------------------------------------------------------------------------
(* C3 *)

EarlyLabels ==
    {"invalid architecture", "failed to generate spec",
     "failed to get image details", "failed to get max ephemeral disk size",
     "maximul ephemeral disk size"}

NothingCreatedOrDeleted(c) ==
    \A i \in DOMAIN ops[c] : ops[c][i].op \notin CreateOps \cup {"DeleteResourceGroup"}

\* C3: a call that failed at steps 1-4 has issued no create and no deletion;
\* a disk request above the adjusted maximum returns an error with no
\* resource group created.
C3_EarlyFailureCreatesNothing ==
    \A c \in Callers :
        /\ (Returned(c) /\ ret[c].kind = "error" /\ ret[c].err.label \in EarlyLabels)
           => NothingCreatedOrDeleted(c)
        /\ \A i \in CallsOf(c, "GetMaxEphemeralDiskSize") :
             (/\ ops[c][i].err = Nil
              /\ spec[c].DiskSizeGB >
                    ops[c][i].size - (IF spec[c].Confidential THEN 1 ELSE 0))
             => /\ Returned(c)
                /\ ret[c].kind = "error"
                /\ NothingCreatedOrDeleted(c)

\* a request of 3 GB against a maximum of 2 GB was refused
C3_Witness ==
    \E c \in Callers : \E i \in CallsOf(c, "GetMaxEphemeralDiskSize") :
        /\ Returned(c)
        /\ ~spec[c].Confidential
        /\ spec[c].DiskSizeGB = 3
        /\ ops[c][i].err = Nil /\ ops[c][i].size = 2
        /\ ret[c].err.label = "maximul ephemeral disk size"
        /\ NothingCreatedOrDeleted(c)

----------------------------------------------------------------------------
(* C4 *)

ExpectedOrder(allocatePublicIP) ==
    IF allocatePublicIP
    THEN <<"CreateResourceGroup", "CreateVirtualNetwork", "CreateSubnet",
           "CreatePublicIP", "CreateNetworkSecurityGroup",
           "CreateNetWorkInterface", "CreateVirtualMachine">>
    ELSE <<"CreateResourceGroup", "CreateVirtualNetwork", "CreateSubnet",
           "CreateNetworkSecurityGroup", "CreateNetWorkInterface",
           "CreateVirtualMachine">>

IsCreate(call) == call.op \in CreateOps

Creates(c) == SelectSeq(ops[c], IsCreate)

\* C4: the create calls of one CreateInstance call are a prefix of the fixed
\* order (with the public IP only when requested), each issued once and only
\* after all the earlier ones returned without error.
C4_CreateOrder ==
    \A c \in Callers :
        LET expected == ExpectedOrder(spec[c].AllocatePublicIP)
        IN /\ Len(Creates(c)) <= Len(expected)
           /\ \A i \in DOMAIN Creates(c) :
                /\ Creates(c)[i].op = expected[i]
                /\ i < Len(Creates(c)) => Creates(c)[i].err = Nil

\* a call without public IP that went through all six creates
C4_Witness ==
    \E c \in Callers :
        /\ Returned(c)
        /\ spec[c] # NoSpec
        /\ ~spec[c].AllocatePublicIP
        /\ Len(Creates(c)) = 6
        /\ Creates(c)[6].op = "CreateVirtualMachine"

----------------------------------------------------------------------------
(* C5 *)

\* C5: a successful return means each create was issued once and succeeded
\* (the public IP when requested), no deletion was issued, and the instance
\* has identifier = name = the instance name and status running.
C5_SuccessMeansAllCreated ==
    \A c \in Callers :
        (Returned(c) /\ ret[c].kind = "ok")
        => /\ \A op \in CreateOps \ {"CreatePublicIP"} :
                Cardinality(CallsOf(c, op)) = 1 /\ Succeeded(c, op)
           /\ spec[c].AllocatePublicIP
                => Cardinality(CallsOf(c, "CreatePublicIP")) = 1
                   /\ Succeeded(c, "CreatePublicIP")
           /\ \A op \in CreateOps : ~Failed(c, op)
           /\ ~Issued(c, "DeleteResourceGroup")
           /\ ret[c].instance.ProviderID = spec[c].Name
           /\ ret[c].instance.Name = spec[c].Name
           /\ ret[c].instance.Name \in Names
           /\ ret[c].instance.Status = "running"

\* a successful call with a public IP
C5_Witness ==
    \E c \in Callers :
        /\ Returned(c)
        /\ ret[c].kind = "ok"
        /\ spec[c].AllocatePublicIP
        /\ ret[c].instance.Name = "runner-b"

----------------------------------------------------------------------------
(* C6 *)

\* C6: with ephemeral storage and explicit size 0, the size passed to the VM
\* creation is the maximum the provider reported, minus 1 when confidential.
C6_DefaultSizeIsMaximum ==
    \A c \in Callers : \A v \in CallsOf(c, "CreateVirtualMachine") :
        (spec[c].UseEphemeralStorage /\ spec[c].DiskSizeGB = 0)
        => /\ Succeeded(c, "GetMaxEphemeralDiskSize")
           /\ \A m \in CallsOf(c, "GetMaxEphemeralDiskSize") :
                ops[c][v].size = IF spec[c].Confidential
                                 THEN ops[c][m].size - 1
                                 ELSE ops[c][m].size

\* a confidential VM created with 2 GB against a maximum of 3 GB
C6_Witness ==
    \E c \in Callers : \E v \in CallsOf(c, "CreateVirtualMachine") :
        \E m \in CallsOf(c, "GetMaxEphemeralDiskSize") :
            /\ spec[c].UseEphemeralStorage
            /\ spec[c].Confidential
            /\ spec[c].DiskSizeGB = 0
            /\ ops[c][m].size = 3
            /\ ops[c][v].size = 2

----------------------------------------------------------------------------
(* C7 *)

CapacityExceeded(c) ==
    ret[c].kind = "error" /\ ret[c].err.label = "maximul ephemeral disk size"

\* C7: with ephemeral storage, once the maximum is known: an explicit size
\* above the adjusted maximum ends the call with the capacity error; a
\* non-zero explicit size up to the adjusted maximum is kept as the effective
\* size and the call goes on to the resource group.
C7_ExplicitSizeAgainstMaximum ==
    \A c \in Callers : \A m \in CallsOf(c, "GetMaxEphemeralDiskSize") :
        (spec[c].UseEphemeralStorage /\ ops[c][m].err = Nil)
        => LET adjusted == ops[c][m].size - (IF spec[c].Confidential THEN 1 ELSE 0)
               disk == spec[c].DiskSizeGB
           IN /\ disk > adjusted => Returned(c) /\ CapacityExceeded(c)
              /\ (disk # 0 /\ disk <= adjusted)
                   => /\ cacheSize[c] = disk
                      /\ ~CapacityExceeded(c)
                      /\ pc[c] = "CreateResourceGroup"
                           \/ Issued(c, "CreateResourceGroup")
                      /\ \A v \in CallsOf(c, "CreateVirtualMachine") :
                            ops[c][v].size = disk

\* an explicit size of 2 GB equal to the adjusted maximum of a confidential
\* VM size reporting 3 GB, accepted and passed to the VM creation
C7_Witness ==
    \E c \in Callers : \E m \in CallsOf(c, "GetMaxEphemeralDiskSize") :
        \E v \in CallsOf(c, "CreateVirtualMachine") :
            /\ spec[c].UseEphemeralStorage
            /\ spec[c].Confidential
            /\ spec[c].DiskSizeGB = 2
            /\ ops[c][m].err = Nil /\ ops[c][m].size = 3
            /\ ops[c][v].size = 2

----------------------------------------------------------------------------
(* C8 *)

\* C8: without ephemeral storage the maximum is never queried, no capacity
\* error is returned, and the size passed to the VM creation is the explicit
\* disk size of the spec.
C8_NonEphemeralSizeUnchanged ==
    \A c \in Callers :
        (spec[c] # NoSpec /\ ~spec[c].UseEphemeralStorage)
        => /\ ~Issued(c, "GetMaxEphemeralDiskSize")
           /\ ~CapacityExceeded(c)
           /\ \A v \in CallsOf(c, "CreateVirtualMachine") :
                ops[c][v].size = spec[c].DiskSizeGB

\* a VM created with the explicit 3 GB, ephemeral storage disabled
C8_Witness ==
    \E c \in Callers : \E v \in CallsOf(c, "CreateVirtualMachine") :
        /\ ~spec[c].UseEphemeralStorage
        /\ spec[c].DiskSizeGB = 3
        /\ ops[c][v].size = 3
        /\ ops[c][v].err = Nil

----------------------------------------------------------------------------
(* C9 *)

NICFailedAfterPublicIP(c) ==
    /\ Returned(c)
    /\ Succeeded(c, "CreateResourceGroup")
    /\ Succeeded(c, "CreateVirtualNetwork")
    /\ Succeeded(c, "CreateSubnet")
    /\ Succeeded(c, "CreatePublicIP")
    /\ Failed(c, "CreateNetWorkInterface")

\* C9: when the NIC creation fails after resource group, network, subnet and
\* public IP succeeded, the call returns the NIC error after exactly one
\* deletion of its resource group, issued last, and no VM creation is issued.
C9_NICFailureRollsBack ==
    \A c \in Callers :
        NICFailedAfterPublicIP(c)
        => /\ Cardinality(Deletions(c)) = 1
           /\ ops[c][Len(ops[c])].op = "DeleteResourceGroup"
           /\ ret[c].kind = "error"
           /\ ret[c].err.label = "failed to create NIC"
           /\ \A i \in CallsOf(c, "CreateNetWorkInterface") :
                ret[c].err.cause = ops[c][i].err
           /\ ~Issued(c, "CreateVirtualMachine")

\* the scenario happened
C9_Witness ==
    \E c \in Callers :
        /\ NICFailedAfterPublicIP(c)
        /\ Cardinality(Deletions(c)) = 1
        /\ ret[c].err.label = "failed to create NIC"

----------------------------------------------------------------------------
(* C10 *)

\* C10: a successful create-public-IP response without address or without
\* identifier is tolerated: the call does not panic and goes on to the
\* security group.
C10_PublicIPResponseTolerated ==
    \A c \in Callers : \A i \in CallsOf(c, "CreatePublicIP") :
        (ops[c][i].err = Nil /\ (ops[c][i].id = Nil \/ ops[c][i].addr = Nil))
        => /\ ret[c].kind # "panic"
           /\ pc[c] = "CreateNetworkSecurityGroup"
                \/ Issued(c, "CreateNetworkSecurityGroup")

----------------------------------------------------------------------------
(* C11 *)

\* C11: when a call of steps 5-11 was aborted by the cancellation of the
\* context, CreateInstance returns an error after having issued the deletion
\* of its resource group.
C11_CancelledStepRollsBack ==
    \A c \in Callers : \A op \in CreateOps : \A i \in CallsOf(c, op) :
        (Returned(c) /\ ops[c][i].err = "context canceled")
        => /\ ret[c].kind = "error"
           /\ Cardinality(Deletions(c)) = 1

----------------------------------------------------------------------------
(* C16 *)

\* C16: the address list of a successful CreateInstance is the public
\* address of the create-public-IP response, typed public, when there is
\* one, and is empty otherwise, in particular when no public IP was requested.
C16_AddressesArePublicAddress ==
    \A c \in Callers :
        (Returned(c) /\ ret[c].kind = "ok")
        => LET addresses == ret[c].instance.Addresses
           IN /\ spec[c].AllocatePublicIP <=> Issued(c, "CreatePublicIP")
              /\ ~spec[c].AllocatePublicIP => addresses = <<>>
              /\ \A i \in CallsOf(c, "CreatePublicIP") :
                    IF ops[c][i].addr # Nil
                    THEN addresses = <<[Address |-> ops[c][i].addr,
                                        Type |-> "public"]>>
                    ELSE addresses = <<>>

\* a successful call that returned the allocated public address
C16_Witness ==
    \E c \in Callers :
        /\ Returned(c)
        /\ ret[c].kind = "ok"
        /\ spec[c].AllocatePublicIP
        /\ ret[c].instance.Addresses = <<[Address |-> "20.0.0.4", Type |-> "public"]>>

----------------------------------------------------------------------------
(* C17 *)

\* C17: a request for another architecture than amd64 has returned the
\* architecture error without any call on the cloud client.
C17_UnsupportedArchIssuesNothing ==
    \A c \in Callers :
        (osArch[c] # "" /\ osArch[c] # "amd64")
        => /\ Returned(c)
           /\ ret[c].kind = "error"
           /\ ret[c].err.label = "invalid architecture"
           /\ ops[c] = <<>>

\* an arm64 request was refused
C17_Witness ==
    \E c \in Callers :
        /\ osArch[c] = "arm64"
        /\ Returned(c)
        /\ ret[c].err.detail = <<"arm64", "amd64">>
        /\ ops[c] = <<>>

----------------------------------------------------------------------------
(* C19 *)

\* C19: when the creation of the resource group returns an error, that call
\* is the last one CreateInstance issues (no deletion, no further create) and
\* the caller gets that error.
C19_GroupFailureIsNotRolledBack ==
    \A c \in Callers : \A i \in CallsOf(c, "CreateResourceGroup") :
        ops[c][i].err # Nil
        => /\ Len(ops[c]) = i
           /\ pc[c] \notin CreateOps
           /\ Returned(c)
                => /\ ret[c].kind = "error"
                   /\ ret[c].err.label = "failed to create resource group"
                   /\ ret[c].err.cause = ops[c][i].err

\* a call returned the error of the resource group creation
C19_Witness ==
    \E c \in Callers : \E i \in CallsOf(c, "CreateResourceGroup") :
        /\ Returned(c)
        /\ ops[c][i].err = "api error"
        /\ ret[c].err.cause = "api error"
        /\ Deletions(c) = {}

----------------------------------------------------------------------------
(* C12 *)

\* the step in which caller c returns from the method
Returns(c, method) ==
    /\ pc[c] \in {"idle", "returned"}
    /\ pc'[c] = "idle"
    /\ reply'[c].method = method

\* C12: DeleteInstance for an identifier whose resource group does not exist
\* (never created, or deleted before) returns success and leaves the cloud
\* unchanged, unless the client call failed for another reason than the
\* absence of the group: the not-found condition of the client is success.
C12_DeleteIsIdempotent ==
    [][\A c \in Callers : \A n \in Names :
        (/\ Returns(c, "DeleteInstance")
         /\ reply'[c].target = n
         /\ ~Exists(cloud, n)
         /\ ops'[c][1].err \in {Nil, NotFound})
        => /\ reply'[c].err = NoError
           /\ cloud' = cloud]_vars

----------------------------------------------------------------------------
(* C13 *)

AllResources == {"rg", "vnet", "subnet", "nsg", "nic", "vm"}

\* C13: every create call of CreateInstance names the resource group of the
\* instance, a successful CreateInstance leaves its resources in that group,
\* resources exist only inside a group, and after a successful
\* DeleteInstance nothing is left under the name it was given.
C13_DeleteRemovesAllCreated ==
    /\ \A c \in Callers : \A i \in DOMAIN ops[c] :
          ops[c][i].op \in CreateOps => ops[c][i].arg = spec[c].Name
    /\ \A c \in Callers :
          (Returned(c) /\ ret[c].kind = "ok")
          => AllResources \subseteq cloud[ret[c].instance.Name]
    /\ \A n \in Names : cloud[n] # {} => Exists(cloud, n)
    /\ \A c \in Callers :
          (reply[c].method = "DeleteInstance" /\ reply[c].err = NoError)
          => cloud[reply[c].target] = {}

\* an instance that was created and whose DeleteInstance returned success
C13_Witness ==
    \E c \in Callers :
        /\ reply[c].method = "DeleteInstance"
        /\ reply[c].err = NoError
        /\ reply[c].target = "runner-b"
        /\ created = {"runner-b"}
        /\ cloud["runner-b"] = {}

----------------------------------------------------------------------------
(* C15 *)

HasNilVM(items) == \E i \in DOMAIN items : items[i].IsNil

\* C15: when the list the client returned has a nil element, ListInstances
\* returns an error and a nil slice; when ListInstances succeeds on a list,
\* it returns one Instance per record, in the order of the records.
C15_ListIsAllOrNothing ==
    \A c \in Callers :
        (reply[c].method = "ListInstances" /\ ops[c][1].err = Nil
            /\ ~ops[c][1].list.isNil)
        => LET items == ops[c][1].list.items
           IN /\ HasNilVM(items)
                   => reply[c].err # NoError /\ reply[c].list = NilSlice
              /\ reply[c].err # NoError => reply[c].list = NilSlice
              /\ reply[c].err = NoError
                   => /\ ~reply[c].list.isNil
                      /\ Len(reply[c].list.items) = Len(items)
                      /\ \A i \in DOMAIN items :
                            reply[c].list.items[i].Name = items[i].Name

\* a list with a nil element after a good record was refused
C15_Witness ==
    \E c \in Callers :
        /\ reply[c].method = "ListInstances"
        /\ ops[c][1].err = Nil
        /\ Len(ops[c][1].list.items) = 2
        /\ ~ops[c][1].list.items[1].IsNil
        /\ ~ops[c][1].list.items[1].Malformed
        /\ ops[c][1].list.items[2].IsNil
        /\ reply[c].err.label = "nil vm object in response"
        /\ reply[c].list = NilSlice

----------------------------------------------------------------------------
(* C18 *)

\* C18: RemoveAllInstances returns success, issues no call on the cloud
\* client and leaves every resource group as it was.
C18_RemoveAllIsNoOp ==
    [][\A c \in Callers :
        Returns(c, "RemoveAllInstances")
        => /\ reply'[c].err = NoError
           /\ ops'[c] = <<>>
           /\ cloud' = cloud
           /\ created' = created]_vars

\* RemoveAllInstances returned while a created instance exists
C18_Witness ==
    \E c \in Callers :
        /\ reply[c].method = "RemoveAllInstances"
        /\ reply[c].err = NoError
        /\ created = {"runner-a"}
        /\ AllResources \subseteq cloud["runner-a"]

----------------------------------------------------------------------------
(* C20 *)

\* C20: the rollback of a failed CreateInstance(name) leaves in place the
\* resource group and resources of an instance of that name that was
\* provisioned before the call.
C20_RollbackSparesExistingInstance ==
    [][\A c \in Callers :
        (/\ pc[c] = "deferred"
         /\ pc'[c] = "returned"
         /\ ret[c].kind = "error"
         /\ spec[c].Name \in created
         /\ "vm" \in cloud[spec[c].Name]
         /\ ~Issued(c, "CreateVirtualMachine"))
        => cloud'[spec[c].Name] = cloud[spec[c].Name]]_vars

----------------------------------------------------------------------------
(* C14 *)

\* C14: with two concurrent CreateInstance runs of different names, every
\* create and delete call of a run names the resource group of its own
\* instance, and every step changes at most the resource group of the run
\* that takes it, under every interleaving.
C14_RunsTouchOnlyTheirOwnGroup ==
    [][/\ \A c \in DOMAIN pc : \A i \in DOMAIN ops'[c] :
             ops'[c][i].arg = spec'[c].Name
       /\ \A n \in Names :
             cloud'[n] # cloud[n]
             => \E c \in DOMAIN pc : pc'[c] # pc[c] /\ spec[c].Name = n]_vars

\* one run has rolled back while the other, half way, still has all it created
C14_Witness ==
    /\ DOMAIN pc = {"c1", "c2"}
    /\ pc["c1"] = "returned"
    /\ Failed("c1", "CreateNetWorkInterface")
    /\ Cardinality(Deletions("c1")) = 1
    /\ cloud["runner-a"] = {}
    /\ pc["c2"] = "CreateVirtualMachine"
    /\ cloud["runner-b"] = {"rg", "vnet", "subnet", "nsg", "nic"}

====
